---- MODULE Spec2Model ----
(***************************************************************************)
(* A model of server/validator_devel/views.py: the package request         *)
(* handlers (module_prepare_download, folder_prepare_download), the        *)
(* download handler, the update channel (module_websocket_handler) and the *)
(* forwarding proxy (build_generic_proxy).                                 *)
(*                                                                         *)
(* The handlers of the package pipeline contain no await: on the event     *)
(* loop each one runs from its first line to its response without another  *)
(* handler running in between, so each is one action here.                 *)
(*                                                                         *)
(* Strings that the code takes apart (the route keys) are sequences of     *)
(* one-character strings.  An optional value (None or a value) is the      *)
(* empty sequence or a one-element sequence.                               *)
(***************************************************************************)
EXTENDS Integers, Sequences, FiniteSets, TLC

VARIABLES
    store,      \* Artifact Store: identifier -> archive
    nextId,     \* the next fresh identifier the packager hands out
    issued,     \* history: identifier -> the resolved set of the request that returned it
    req,        \* the last request of the package pipeline, with what its collaborators answered
    calls,      \* what the last request invoked: resolver calls, packager arguments, exception raised
    resp,       \* the response to the last request
    wsState,    \* update channel: the session's state
    wsPc,       \* update channel: the handler's position
    inbox,      \* update channel: frames arrived and not yet received by the handler
    arrived,    \* update channel: every frame that arrived, in arrival order
    processed,  \* update channel: the frames the loop body handled, in handling order
    inbound,    \* proxy: the inbound request and the endpoint of the proxy that took it
    outbound,   \* proxy: the outbound request sent upstream
    proxied     \* proxy: the upstream's response and the response given to the caller

vars == <<store, nextId, issued, req, calls, resp,
          wsState, wsPc, inbox, arrived, processed, inbound, outbound, proxied>>

pkgVars == <<store, nextId, issued, req, calls, resp>>
wsVars == <<wsState, wsPc, inbox, arrived, processed>>
proxyVars == <<inbound, outbound, proxied>>

\* ------------------------------------------------------------------ bounds

MaxIds == 2
MaxDeps == 2
MaxFrames == 4
MaxHeaders == 2

\* ----------------------------------------------------------------- strings

RECURSIVE SplitOn(_, _)
\* str.split(sep) for a one-character separator
SplitOn(s, c) ==
    IF \A i \in 1..Len(s) : s[i] # c
    THEN <<s>>
    ELSE LET i == CHOOSE j \in 1..Len(s) :
                      s[j] = c /\ \A k \in 1..(j - 1) : s[k] # c
         IN <<SubSeq(s, 1, i - 1)>> \o SplitOn(SubSeq(s, i + 1, Len(s)), c)

RECURSIVE JoinWith(_, _)
\* sep.join(parts) for a one-character separator
JoinWith(parts, c) ==
    IF Len(parts) = 0 THEN <<>>
    ELSE IF Len(parts) = 1 THEN parts[1]
    ELSE parts[1] \o <<c>> \o JoinWith(Tail(parts), c)

\* key = '/'.join(key.split('-'))
decode_folder_key(route) == JoinWith(SplitOn(route, "-"), "/")

\* ---------------------------------------------------- the module universe

KeyA == <<"a">>
KeyB == <<"b">>
KeyC == <<"c">>
KeyX == <<"x">>
KeyAB == <<"a", "-", "b">>

\* the keys of the modules the discovery collaborator knows
ModuleKeys == {KeyA, KeyB, KeyC}
FilePaths == {"p", "q"}
\* the keys a client sends in a route
RouteKeys == {KeyA, KeyB, KeyC, KeyX, KeyAB}

Module(k, f) == [key |-> k, file_path |-> f]
Modules == {Module(k, f) : k \in ModuleKeys, f \in FilePaths}

\* find_module(key): the module of that key, or None
find_module(key) ==
    IF key \in ModuleKeys THEN <<Module(key, "p")>> ELSE <<>>

\* get_all_modules_in_folder(path): the modules under a '/'-joined path
get_all_modules_in_folder(path) ==
    IF path = <<"a", "/", "b">> THEN <<Module(KeyA, "p"), Module(KeyB, "p")>>
    ELSE IF path = KeyC THEN <<Module(KeyC, "p")>>
    ELSE <<>>

KeysOf(list) == {list[i].key : i \in 1..Len(list)}

\* get_module_dependencies(module) on the module graph: a and b depend on c
dependencies(module) ==
    IF module.key = KeyC THEN <<module>> ELSE <<module, Module(KeyC, "p")>>

\* the exceptions the resolver and the packager raise
Exceptions ==
    {[type |-> "KeyError", args |-> <<KeyX>>],
     [type |-> "TemplateNotFound", args |-> <<"t1">>],
     [type |-> "TemplateSyntaxError", args |-> <<"unexpected '}'">>],
     [type |-> "TemplateRuntimeError", args |-> <<"undefined">>]}

Answer(deps) == [ok |-> TRUE, deps |-> deps, exc |-> <<>>]
Raises(e) == [ok |-> FALSE, deps |-> <<>>, exc |-> <<e>>]

\* what prepare_modules does: packs and stores, or raises
PackOutcomes == {Answer(<<>>)} \cup {Raises(e) : e \in Exceptions}

\* the dependency lists of a module graph whose entries may differ under one
\* key: every list of 1..MaxDeps entries
DepLists == UNION {[1..n -> Modules] : n \in 1..MaxDeps}

\* the archive prepare_modules writes for a module list: one entry per module
Archive(modules) ==
    [i \in 1..Len(modules) |->
        [name |-> modules[i].key, content |-> modules[i].file_path]]

\* ---------------------------------------------------------------- responses

NoData == [x \in {} |-> 0]

\* web.json_response(data): status 200, the JSON body
JsonResponse(data) ==
    [status |-> 200, kind |-> "json", data |-> data, body |-> <<>>, headers |-> {}]

\* an exception that leaves the handler: web.HTTPNotFound is the not-found
\* response, anything else the server's unhandled-error response
ExceptionResponse(e) ==
    IF e.type = "HTTPNotFound"
    THEN [status |-> 404, kind |-> "notfound", data |-> NoData, body |-> <<>>, headers |-> {}]
    ELSE [status |-> 500, kind |-> "unhandled", data |-> NoData, body |-> <<>>, headers |-> {}]

HTTPNotFound == [type |-> "HTTPNotFound", args |-> <<>>]
AttributeError == [type |-> "AttributeError", args |-> <<"templates">>]

\* the classes of: except (jinja2.TemplateError, jinja2.TemplateRuntimeError,
\* jinja2.TemplateSyntaxError)
TemplateErrorTypes ==
    {"TemplateNotFound", "TemplatesNotFound", "TemplateSyntaxError", "TemplateRuntimeError"}

\* the exception classes that have a .templates attribute
HasTemplatesAttr(e) == e.type \in {"TemplateNotFound", "TemplatesNotFound"}

KeyErrorType(handler) ==
    IF handler = "module" THEN "module_request.key_error" ELSE "folder_request.key_error"

TemplateErrorType(handler) ==
    IF handler = "module" THEN "module_request.template_not_found"
    ELSE "folder_request.template_not_found"

\* traceback.format_exception(...): a list of lines naming the exception
Stacktrace(e) == <<"Traceback (most recent call last):", e.type>>

\* handle_exception with "uuid" left in the data beside "error"
handle_exception_with_uuid(handler, key, e) ==
    JsonResponse([uuid |-> 0,
                  error |-> [stacktrace |-> Stacktrace(e),
                             type |-> KeyErrorType(handler),
                             request |-> key,
                             missing_key |-> e.args[1]]])

\* the except clauses of a package request: the response for exception e
\* raised in the try block, `key` being the handler's variable key
handle_exception(handler, key, e) ==
    IF e.type = "KeyError"
    THEN JsonResponse([error |-> [stacktrace |-> Stacktrace(e),
                                  type |-> KeyErrorType(handler),
                                  request |-> key,
                                  missing_key |-> e.args[1]]])
    ELSE IF e.type \in TemplateErrorTypes
    THEN IF HasTemplatesAttr(e)
         THEN JsonResponse([error |-> [stacktrace |-> Stacktrace(e),
                                       type |-> TemplateErrorType(handler),
                                       request |-> key,
                                       missing_templates |-> e.args]])
         ELSE ExceptionResponse(AttributeError)
    ELSE ExceptionResponse(e)

\* -------------------------------------------------- packager and the store

\* prepare_modules(modules): packs the modules, stores the archive under a
\* fresh identifier and returns it; on a failure nothing is stored
prepare_modules(modules, p, st, nid) ==
    IF p.ok
    THEN [raised |-> <<>>, uuid |-> nid,
          store |-> (nid :> Archive(modules)) @@ st, nid |-> nid + 1]
    ELSE [raised |-> p.exc, uuid |-> 0, store |-> st, nid |-> nid]

\* the store's NotFound: its own failure, not an HTTP response
StoreNotFound == [type |-> "NotFound", args |-> <<>>]

\* the forms the store's NotFound takes: an exception, or the result None
NotFoundForms == {"raises", "none"}

\* download_file(uuid): the archive stored under uuid, or NotFound
download_file(uuid, st, form) ==
    IF uuid \in DOMAIN st
    THEN [raised |-> <<>>, bytes |-> st[uuid]]
    ELSE IF form = "raises"
    THEN [raised |-> <<StoreNotFound>>, bytes |-> <<>>]
    ELSE [raised |-> <<>>, bytes |-> <<>>]

\* ------------------------------------------------------- package requests

NoCalls == [resolver |-> 0, packed |-> <<>>, raised |-> <<>>]

\* raise web.HTTPNotFound() before the try block
NotFoundResult(st, nid) ==
    [resp |-> ExceptionResponse(HTTPNotFound), store |-> st, nid |-> nid,
     calls |-> NoCalls]

\* the try block and its except clauses: pack what the resolver answered,
\* answer {"uuid": ...} or the error envelope
package_try(handler, key, resolved, resolverCalls, p, st, nid) ==
    LET packed == IF resolved.ok
                  THEN prepare_modules(resolved.deps, p, st, nid)
                  ELSE [raised |-> resolved.exc, uuid |-> 0, store |-> st, nid |-> nid]
    IN [resp |-> IF packed.raised = <<>>
                 THEN JsonResponse([uuid |-> packed.uuid])
                 ELSE handle_exception(handler, key, packed.raised[1]),
        store |-> packed.store,
        nid |-> packed.nid,
        calls |-> [resolver |-> resolverCalls,
                   packed |-> IF resolved.ok THEN <<resolved.deps>> ELSE <<>>,
                   raised |-> packed.raised]]

\* module_prepare_download packing the module alone, not its dependencies
module_prepare_download_self(key, r, p, st, nid) ==
    LET module == find_module(key)
    IN IF module = <<>>
       THEN NotFoundResult(st, nid)
       ELSE package_try("module", key, IF r.ok THEN Answer(module) ELSE r, 1, p, st, nid)

\* module_prepare_download without the check of find_module's answer
module_prepare_download_noguard(key, r, p, st, nid) ==
    package_try("module", key, r, 1, p, st, nid)

\* module_prepare_download: r is what get_module_dependencies answers, p what
\* prepare_modules does
module_prepare_download(key, r, p, st, nid) ==
    LET module == find_module(key)
    IN IF module = <<>>
       THEN NotFoundResult(st, nid)
       ELSE package_try("module", key, r, 1, p, st, nid)

\* {v['key']: v for v in ...}: one insertion into the dictionary, which keeps
\* a key at the place of its first insertion and rebinds its value
DictInsert(acc, v) ==
    IF \E j \in 1..Len(acc) : acc[j].key = v.key
    THEN [j \in 1..Len(acc) |-> IF acc[j].key = v.key THEN v ELSE acc[j]]
    ELSE Append(acc, v)

RECURSIVE DictFromList(_, _)
DictFromList(acc, all) ==
    IF all = <<>> THEN acc ELSE DictFromList(DictInsert(acc, Head(all)), Tail(all))

\* one insertion that keeps the value first bound to a key
DictInsertFirst(acc, v) ==
    IF \E j \in 1..Len(acc) : acc[j].key = v.key THEN acc ELSE Append(acc, v)

RECURSIVE DictFromListFirst(_, _)
DictFromListFirst(acc, all) ==
    IF all = <<>> THEN acc
    ELSE DictFromListFirst(DictInsertFirst(acc, Head(all)), Tail(all))

\* the de-duplication keeping the first entry seen for a key
DedupByKey_first(all) == DictFromListFirst(<<>>, all)

\* no de-duplication: the concatenated lists as they are
DedupByKey_none(all) == all

\* all_deps = list({v['key']: v for v in all_deps}.values())
DedupByKey(all) == DictFromList(<<>>, all)

RECURSIVE ConcatDeps(_)
\* all_deps = all_deps + get_module_dependencies(module), over the modules
ConcatDeps(rs) ==
    IF rs = <<>> THEN <<>> ELSE Head(rs).deps \o ConcatDeps(Tail(rs))

\* the index of the first call of get_module_dependencies that raises, or 0
FirstFailure(rs) ==
    IF \A i \in 1..Len(rs) : rs[i].ok THEN 0
    ELSE CHOOSE i \in 1..Len(rs) : ~rs[i].ok /\ \A j \in 1..(i - 1) : rs[j].ok

\* the calls of get_module_dependencies the loop makes
ResolverCalls(rs) == IF FirstFailure(rs) = 0 THEN Len(rs) ELSE FirstFailure(rs)

\* the loop over the folder's modules and the de-duplication
resolve_folder(rs) ==
    IF FirstFailure(rs) = 0
    THEN [ok |-> TRUE, deps |-> DedupByKey(ConcatDeps(rs)), exc |-> <<>>]
    ELSE [ok |-> FALSE, deps |-> <<>>, exc |-> rs[FirstFailure(rs)].exc]

\* folder_prepare_download: rs[i] is what get_module_dependencies answers for
\* the folder's i-th module, p what prepare_modules does
folder_prepare_download(route, rs, p, st, nid) ==
    LET key == decode_folder_key(route)
        modules == get_all_modules_in_folder(key)
    IN IF modules = <<>>
       THEN NotFoundResult(st, nid)
       ELSE package_try("folder", key, resolve_folder(rs), ResolverCalls(rs), p, st, nid)

\* download: web.Response(body=download_file(uuid), headers=...), with no
\* check of the answer and no except clause
download(uuid, st, form) ==
    LET r == download_file(uuid, st, form)
    IN IF r.raised # <<>>
       THEN ExceptionResponse(r.raised[1])
       ELSE [status |-> 200, kind |-> "zip", data |-> NoData, body |-> r.bytes,
             headers |-> {<<"Content-disposition", "attachment; filename=modules.zip">>}]

\* ------------------------------------------------ the package pipeline

NoRequest == [handler |-> "none", key |-> <<>>, uuid |-> 0, rs |-> <<>>, p |-> <<>>]
NoResponse == [status |-> 0, kind |-> "none", data |-> NoData, body |-> <<>>, headers |-> {}]

InitPackage ==
    /\ store = <<>>
    /\ nextId = 1
    /\ issued = <<>>
    /\ req = NoRequest
    /\ calls = NoCalls
    /\ resp = NoResponse

\* the request as the history keeps it: the route key, and the answers of the
\* collaborator calls the handler made
PackageRequest(handler, key, rs, p, out) ==
    [handler |-> handler, key |-> key, uuid |-> 0,
     rs |-> SubSeq(rs, 1, out.calls.resolver),
     p |-> IF out.calls.packed # <<>> THEN <<p>> ELSE <<>>]

\* the history of issued identifiers after a response to a request whose
\* resolved set is S
Issue(out, S) ==
    IF out.resp.kind = "json" /\ "uuid" \in DOMAIN out.resp.data
    THEN (out.resp.data.uuid :> S) @@ issued
    ELSE issued

\* the answers of the calls of get_module_dependencies a request makes: one
\* per module up to the first that raises
RECURSIVE ResolverAnswers(_)
ResolverAnswers(modules) ==
    IF modules = <<>> THEN {<<>>}
    ELSE {<<Raises(e)>> : e \in Exceptions}
         \cup {<<Answer(dependencies(Head(modules)))>> \o rest :
                  rest \in ResolverAnswers(Tail(modules))}

\* what prepare_modules does when the resolver answered rs: it is called only
\* when no call of the resolver raised
PackAnswers(rs) ==
    IF \A i \in 1..Len(rs) : rs[i].ok THEN PackOutcomes ELSE {Answer(<<>>)}

ModulePrepareDownload ==
    \E key \in RouteKeys :
        \E rs \in ResolverAnswers(IF find_module(key) = <<>>
                                  THEN <<Module(key, "p")>> ELSE find_module(key)) :
            \E p \in PackAnswers(rs) :
                LET out == module_prepare_download(key, rs[1], p, store, nextId)
                IN /\ out.nid <= MaxIds + 1
                   /\ store' = out.store
                   /\ nextId' = out.nid
                   /\ resp' = out.resp
                   /\ calls' = out.calls
                   /\ req' = PackageRequest("module", key, rs, p, out)
                   /\ issued' = Issue(out, rs[1].deps)
                   /\ UNCHANGED <<wsVars, proxyVars>>

FolderPrepareDownload ==
    \E route \in RouteKeys :
        \E rs \in ResolverAnswers(get_all_modules_in_folder(decode_folder_key(route))) :
            \E p \in PackAnswers(rs) :
                LET out == folder_prepare_download(route, rs, p, store, nextId)
                IN /\ out.nid <= MaxIds + 1
                   /\ store' = out.store
                   /\ nextId' = out.nid
                   /\ resp' = out.resp
                   /\ calls' = out.calls
                   /\ req' = PackageRequest("folder", route, rs, p, out)
                   /\ issued' = Issue(out, resolve_folder(rs).deps)
                   /\ UNCHANGED <<wsVars, proxyVars>>

Download ==
    \E uuid \in 1..(MaxIds + 1), form \in NotFoundForms :
        /\ resp' = download(uuid, store, form)
        /\ req' = [NoRequest EXCEPT !.handler = "download", !.uuid = uuid]
        /\ calls' = NoCalls
        /\ UNCHANGED <<store, nextId, issued, wsVars, proxyVars>>

\* --------------------------------------------------- folder resolution

\* the answers of the resolver for the modules of a folder, over module
\* graphs whose dependency entries may differ under one key
FolderAnswers == UNION {[1..n -> {Answer(l) : l \in DepLists}] : n \in {1, 2}}

InitResolve ==
    /\ store = <<>>
    /\ nextId = 1
    /\ issued = <<>>
    /\ req \in {[NoRequest EXCEPT !.handler = "pending", !.rs = rs] : rs \in FolderAnswers}
    /\ calls = NoCalls
    /\ resp = NoResponse

\* a folder package request on a folder whose modules resolve to req.rs
FolderRequestPending ==
    /\ req.handler = "pending"
    /\ \E route \in RouteKeys :
          /\ Len(get_all_modules_in_folder(decode_folder_key(route))) = Len(req.rs)
          /\ LET p == Answer(<<>>)
                 out == folder_prepare_download(route, req.rs, p, store, nextId)
             IN /\ store' = out.store
                /\ nextId' = out.nid
                /\ resp' = out.resp
                /\ calls' = out.calls
                /\ req' = PackageRequest("folder", route, req.rs, p, out)
                /\ issued' = Issue(out, resolve_folder(req.rs).deps)
                /\ UNCHANGED <<wsVars, proxyVars>>

\* --------------------------------------------------------- update channel

FrameTypes == {"TEXT", "BINARY", "ERROR"}
Frames == [type : FrameTypes, data : {"close", "ping"}]

InitChannel ==
    /\ wsState = "Open"
    /\ wsPc = "loop"
    /\ inbox = <<>>
    /\ arrived = <<>>
    /\ processed = <<>>

\* the loop body closing on the data alone, whatever the frame's type
websocket_on_message_anytype(msg, state) ==
    IF msg.data = "close" THEN "Closed" ELSE state

\* the body of: async for msg in ws.  The session's state after msg: a text
\* frame "close" awaits ws.close() (the close handshake, then closed), an
\* error frame is logged, any other frame is ignored
websocket_on_message(msg, state) ==
    IF msg.type = "TEXT"
    THEN IF msg.data = "close" THEN "Closed" ELSE state
    ELSE IF msg.type = "ERROR" THEN state
    ELSE state

\* the client sends a frame
FrameArrives ==
    /\ wsState = "Open"
    /\ Len(arrived) < MaxFrames
    /\ \E f \in Frames :
          /\ inbox' = Append(inbox, f)
          /\ arrived' = Append(arrived, f)
    /\ UNCHANGED <<wsState, wsPc, processed, pkgVars, proxyVars>>

\* one iteration of the loop: the next frame is received and handled
HandleFrame ==
    /\ wsPc = "loop"
    /\ wsState = "Open"
    /\ inbox # <<>>
    /\ wsState' = websocket_on_message(Head(inbox), wsState)
    /\ processed' = Append(processed, Head(inbox))
    /\ inbox' = Tail(inbox)
    /\ UNCHANGED <<wsPc, arrived, pkgVars, proxyVars>>

\* the transport ends the connection: the client went away
ClientDisconnect ==
    /\ wsPc = "loop"
    /\ wsState = "Open"
    /\ inbox = <<>>
    /\ wsState' = "Closed"
    /\ UNCHANGED <<wsPc, inbox, arrived, processed, pkgVars, proxyVars>>

\* the iteration over a closed socket stops: return ws
LoopEnds ==
    /\ wsPc = "loop"
    /\ wsState = "Closed"
    /\ wsPc' = "done"
    /\ UNCHANGED <<wsState, inbox, arrived, processed, pkgVars, proxyVars>>

NextChannel == FrameArrives \/ HandleFrame \/ ClientDisconnect \/ LoopEnds

\* ------------------------------------------------------- forwarding proxy

HeaderNames == {"Host", "Accept"}
HeaderValues == {"v1", "v2"}
Headers == [name : HeaderNames, value : HeaderValues]
\* the header lists of an inbound request: a name may repeat, Host at most once
HeaderLists ==
    {hs \in UNION {[1..n -> Headers] : n \in 0..MaxHeaders} :
        Cardinality({i \in 1..Len(hs) : hs[i].name = "Host"}) <= 1}
\* the proxies built: urlparse(endpoint).hostname is a host name or None
Endpoints == {[url |-> "http://upstream/api", hostname |-> <<"upstream">>],
              [url |-> "/api", hostname |-> <<>>]}
Responses == [status : {200, 502}, headers : {{<<"Content-Encoding", "gzip">>}}, content : {"z"}]

NoInbound == [method |-> "", body |-> "", headers |-> <<>>, endpoint |-> [url |-> "", hostname |-> <<>>]]
NoOutbound == [method |-> "", url |-> "", data |-> "", headers |-> <<>>]
NoProxied == [upstream |-> <<>>, response |-> <<>>]

InitProxy ==
    /\ inbound = NoInbound
    /\ outbound = NoOutbound
    /\ proxied = NoProxied

HeaderNamesOf(hs) == {hs[i].name : i \in 1..Len(hs)}

\* dict(request.headers): a dictionary has one value per name; the multidict
\* answers a name's first value
dict_of_headers(hs) ==
    [n \in HeaderNamesOf(hs) |->
        hs[CHOOSE i \in 1..Len(hs) :
               hs[i].name = n /\ \A j \in 1..(i - 1) : hs[j].name # n].value]

\* headers = dict(request.headers), and headers['Host'] = o.hostname when the
\* endpoint has a host name
outbound_headers(endpoint, hs) ==
    LET d == dict_of_headers(hs)
    IN IF endpoint.hostname # <<>>
       THEN [n \in DOMAIN d \cup {"Host"} |->
                IF n = "Host" THEN endpoint.hostname[1] ELSE d[n]]
       ELSE d

\* session.request(request.method, endpoint, data=body, headers=headers)
proxy_request(endpoint, request) ==
    [method |-> request.method, url |-> endpoint.url, data |-> request.body,
     headers |-> outbound_headers(endpoint, request.headers)]

\* web.Response(headers=response.headers, status=response.status, body=content)
proxy_response(response) ==
    [status |-> response.status, headers |-> response.headers, body |-> response.content]

\* one inbound request through a proxy: the outbound request, the upstream's
\* response, the response to the caller
Proxy ==
    \E endpoint \in Endpoints, method \in {"GET", "POST"}, body \in {"", "payload"},
       hs \in HeaderLists, response \in Responses :
        LET request == [method |-> method, body |-> body, headers |-> hs,
                        endpoint |-> endpoint]
        IN /\ inbound' = request
           /\ outbound' = proxy_request(endpoint, request)
           /\ proxied' = [upstream |-> <<response>>, response |-> <<proxy_response(response)>>]
           /\ UNCHANGED <<pkgVars, wsVars>>

\* ------------------------------------------------------------ specification

Init == InitPackage /\ InitChannel /\ InitProxy

Next == ModulePrepareDownload \/ FolderPrepareDownload \/ Download

Spec == Init /\ [][Next]_vars

InitFolder == InitResolve /\ InitChannel /\ InitProxy

SpecResolve == InitFolder /\ [][FolderRequestPending]_vars

SpecChannel == Init /\ [][NextChannel]_vars

SpecProxy == Init /\ [][Proxy]_vars

\* ------------------------------------------------- package pipeline: claims

IsPackage == req.handler \in {"module", "folder"}
HasUuid == resp.kind = "json" /\ "uuid" \in DOMAIN resp.data
HasError == resp.kind = "json" /\ "error" \in DOMAIN resp.data
Raised(types) == calls.raised # <<>> /\ calls.raised[1].type \in types

\* C1: every identifier a package request returned for a resolved set S names
\* the archive packed from exactly S, and a download of it, whatever other
\* package and download requests ran in between, answers that archive.
C1_StoreThenVisible ==
    /\ \A id \in DOMAIN issued :
          id \in DOMAIN store /\ store[id] = Archive(issued[id])
    /\ (req.handler = "download" /\ req.uuid \in DOMAIN issued)
          => /\ resp.status = 200
             /\ resp.kind = "zip"
             /\ resp.body = Archive(issued[req.uuid])

\* the first identifier downloaded after a second, different artifact was stored
C1_Witness ==
    /\ req.handler = "download"
    /\ req.uuid = 1
    /\ DOMAIN issued = {1, 2}
    /\ issued[1] # issued[2]
    /\ Len(issued[1]) = 3
    /\ resp.status = 200
    /\ Len(resp.body) = 3

\* C2 (as claimed): a download of an identifier no package request ever
\* issued answers not-found: no success response, no unhandled server error.
C2_NeverIssuedNotFound ==
    (req.handler = "download" /\ req.uuid \notin DOMAIN issued)
        => /\ resp.status = 404
           /\ resp.kind = "notfound"
           /\ resp.body = <<>>

\* whether the target of a package request exists
TargetExists(handler, key) ==
    IF handler = "module"
    THEN key \in ModuleKeys
    ELSE get_all_modules_in_folder(decode_folder_key(key)) # <<>>

\* C3: a package request whose target does not exist answers not-found and
\* nothing else: no uuid, no error envelope, the resolver and the packager
\* are not invoked, the store is unchanged.
C3_MissingTargetNotFound ==
    [][(req'.handler \in {"module", "folder"} /\ ~TargetExists(req'.handler, req'.key))
          => /\ resp'.status = 404
             /\ resp'.kind = "notfound"
             /\ DOMAIN resp'.data = {}
             /\ calls'.resolver = 0
             /\ calls'.packed = <<>>
             /\ store' = store
             /\ nextId' = nextId]_vars

\* a module request for an unknown key answered while an artifact is stored
C3_Witness ==
    /\ req.handler = "module"
    /\ req.key = KeyAB
    /\ resp.status = 404
    /\ calls = NoCalls
    /\ DOMAIN store = {1}

\* C7 (as claimed): a KeyError raised while resolving or packaging is answered
\* with a 200 JSON envelope of type *.key_error whose missing_key is the
\* offending key and whose request is the key as the client sent it.
C7_RequestIsRouteKey ==
    (IsPackage /\ Raised({"KeyError"}))
        => /\ resp.status = 200
           /\ HasError
           /\ resp.data.error.type \in {"module_request.key_error", "folder_request.key_error"}
           /\ resp.data.error.missing_key = calls.raised[1].args[1]
           /\ resp.data.error.request = req.key

\* C8 (as claimed): every templating error raised while resolving or packaging
\* is answered with a JSON envelope of type *.template_not_found that carries
\* the missing template names; the request never ends unhandled.
C8_TemplateErrorsEnveloped ==
    (IsPackage /\ Raised(TemplateErrorTypes))
        => /\ resp.status = 200
           /\ HasError
           /\ resp.data.error.type \in {"module_request.template_not_found",
                                        "folder_request.template_not_found"}
           /\ "missing_templates" \in DOMAIN resp.data.error

AllDeps == ConcatDeps(req.rs)
FolderPacked == req.handler = "folder" /\ calls.packed # <<>>
\* the places of a key's first and last entry in a list
FirstIndex(list, k) ==
    CHOOSE i \in 1..Len(list) :
        list[i].key = k /\ \A j \in 1..(i - 1) : list[j].key # k
LastIndex(list, k) ==
    CHOOSE i \in 1..Len(list) :
        list[i].key = k /\ \A j \in (i + 1)..Len(list) : list[j].key # k
NoKeyTwice(list) ==
    \A i, j \in 1..Len(list) : i # j => list[i].key # list[j].key

\* C4: the list a folder request hands to the packager holds no key twice,
\* and its keys are the union of the keys of the modules' dependency lists
\* (two modules sharing one dependency: 3 entries, not 4).
C4_FolderDeduplicated ==
    FolderPacked =>
        /\ NoKeyTwice(calls.packed[1])
        /\ KeysOf(calls.packed[1]) = KeysOf(AllDeps)
        /\ Len(calls.packed[1]) = Cardinality(KeysOf(AllDeps))

\* modules a and b, each with the shared dependency c: 3 entries packed
C4_Witness ==
    /\ FolderPacked
    /\ Len(req.rs) = 2
    /\ KeysOf(req.rs[1].deps) = {KeyA, KeyC}
    /\ KeysOf(req.rs[2].deps) = {KeyB, KeyC}
    /\ Len(AllDeps) = 4
    /\ Len(calls.packed[1]) = 3
    /\ HasUuid

\* the keys stand in the order of their first occurrence
FirstOccurrenceOrder(packed, all) ==
    \A i, j \in 1..Len(packed) :
        i < j => FirstIndex(all, packed[i].key) < FirstIndex(all, packed[j].key)

\* C10 (as claimed): the entry kept for a key is the first one seen, at the
\* place of its first occurrence.
C10_FirstEntryKept ==
    FolderPacked =>
        /\ KeysOf(calls.packed[1]) = KeysOf(AllDeps)
        /\ FirstOccurrenceOrder(calls.packed[1], AllDeps)
        /\ \A i \in 1..Len(calls.packed[1]) :
              calls.packed[1][i] = AllDeps[FirstIndex(AllDeps, calls.packed[1][i].key)]

\* C10 (amended): the entry kept for a key is the last one seen, at the place
\* of the key's first occurrence.
C10_LastEntryKeptAtFirstPlace ==
    FolderPacked =>
        /\ KeysOf(calls.packed[1]) = KeysOf(AllDeps)
        /\ FirstOccurrenceOrder(calls.packed[1], AllDeps)
        /\ \A i \in 1..Len(calls.packed[1]) :
              calls.packed[1][i] = AllDeps[LastIndex(AllDeps, calls.packed[1][i].key)]

\* key c seen first with one entry, then key a, then key c with another entry
C10_Witness ==
    /\ FolderPacked
    /\ Len(AllDeps) = 3
    /\ AllDeps[1].key = KeyC /\ AllDeps[2].key = KeyA /\ AllDeps[3].key = KeyC
    /\ AllDeps[1] # AllDeps[3]
    /\ calls.packed[1] = <<AllDeps[3], AllDeps[2]>>

\* --------------------------------------------------- update channel: claims

IsPrefix(a, b) == Len(a) <= Len(b) /\ SubSeq(b, 1, Len(a)) = a

C6_HeadersVerbatim ==
    inbound.method # "" =>
        /\ outbound.method = inbound.method
        /\ outbound.data = inbound.body
        /\ \A i \in 1..Len(inbound.headers) :
              \/ inbound.headers[i].name = "Host" /\ inbound.endpoint.hostname # <<>>
              \/ /\ inbound.headers[i].name \in DOMAIN outbound.headers
                 /\ outbound.headers[inbound.headers[i].name] = inbound.headers[i].value
        /\ inbound.endpoint.hostname # <<>>
              => /\ "Host" \in DOMAIN outbound.headers
                 /\ outbound.headers["Host"] = inbound.endpoint.hostname[1]

====
